---- MODULE Spec2Model ----
(***************************************************************************)
(* Fireplexity v2: environment-driven Azure OpenAI configuration.          *)
(*                                                                         *)
(* The model covers lib/azure-openai-config.ts (getAzureOpenAIConfig,      *)
(* createAzureOpenAIClient, extractResourceName, getAzureOpenAIModel,      *)
(* validateAzureOpenAIConfig) and the two status routes check-env and      *)
(* check-azure-env.  process.env is the only program state; every          *)
(* operation is a synchronous read of it.                                  *)
(*                                                                         *)
(* A JavaScript string is a sequence of one-character strings, so that     *)
(* String.prototype.match / includes / replace are computed on characters. *)
(* A value read from process.env is either undefined or a string.          *)
(***************************************************************************)
EXTENDS Naturals, Sequences, FiniteSets

VARIABLES env, result, prev, extracted

vars == <<env, result, prev, extracted>>

---------------------------------------------------------------------------
(* JavaScript values: string | undefined                                   *)

Undefined == [defined |-> FALSE, str |-> <<>>]

Str(s) == [defined |-> TRUE, str |-> s]

\* JavaScript truthiness of a string | undefined value: undefined and ''
\* are falsy, every other string is truthy.
Truthy(v) == v.defined /\ v.str # <<>>

\* a || b for a string | undefined left operand and a string right operand
OrDefault(v, d) == IF Truthy(v) THEN v.str ELSE d

---------------------------------------------------------------------------
(* String literals of the source                                           *)

HTTPS == <<"h","t","t","p","s",":","/","/">>

OPENAI_AZURE_COM == <<"o","p","e","n","a","i",".","a","z","u","r","e",".","c","o","m">>

DOT_OPENAI_AZURE_COM == <<".">> \o OPENAI_AZURE_COM

DEFAULT_API_VERSION == <<"2","0","2","4","-","0","2","-","1","5","-","p","r","e","v","i","e","w">>

DEFAULT_DEPLOYMENT_NAME == <<"g","p","t","-","4","o">>

MSG_CONFIG_MISSING == "Azure OpenAI configuration missing. Please set AZURE_OPENAI_ENDPOINT and AZURE_OPENAI_API_KEY environment variables."

MSG_INVALID_ENDPOINT == "Invalid Azure OpenAI endpoint format. Expected: https://your-resource.openai.azure.com/"

MSG_ENDPOINT_OR_APIM == "Either AZURE_OPENAI_ENDPOINT must be a valid Azure OpenAI endpoint or AZURE_APIM_ENDPOINT must be configured"

MSG_SUBSCRIPTION_KEY == "AZURE_APIM_SUBSCRIPTION_KEY is required when using APIM endpoint"

MSG_DEPLOYMENT_NAME == "AZURE_OPENAI_DEPLOYMENT_NAME is required"

MSG_INVALID == "Azure OpenAI configuration is invalid"

MSG_VALID == "Azure OpenAI configuration is valid"

MSG_FAILED_TO_VALIDATE == "Failed to validate Azure OpenAI configuration"

---------------------------------------------------------------------------
(* Outcome of a call: a returned value or a thrown Error(message)          *)

Return(v) == [threw |-> FALSE, error |-> "", value |-> v]

Throw(msg) == [threw |-> TRUE, error |-> msg, value |-> <<>>]

---------------------------------------------------------------------------
(* String primitives, computed character by character                      *)

\* TRUE iff pat occurs in s starting at index i (1-based)
OccursAt(s, pat, i) ==
    /\ i >= 1
    /\ i + Len(pat) - 1 <= Len(s)
    /\ \A k \in 1..Len(pat) : s[i + k - 1] = pat[k]

\* String.prototype.includes
Includes(s, pat) == \E i \in 1..(Len(s) + 1) : OccursAt(s, pat, i)

\* s.replace(/\/$/, ''): removes one '/' when it is the last character
StripTrailingSlash(s) ==
    IF Len(s) > 0 /\ s[Len(s)] = "/" THEN SubSeq(s, 1, Len(s) - 1) ELSE s

---------------------------------------------------------------------------
(* lib/azure-openai-config.ts                                              *)

\* Variant: the required-variable test joined with && instead of ||.
getAzureOpenAIConfig_BothMissing(e) ==
    IF ~Truthy(e.AZURE_OPENAI_ENDPOINT) /\ ~Truthy(e.AZURE_OPENAI_API_KEY)
    THEN Throw(MSG_CONFIG_MISSING)
    ELSE Return([endpoint |-> e.AZURE_OPENAI_ENDPOINT.str,
                 apiKey |-> e.AZURE_OPENAI_API_KEY.str,
                 apiVersion |-> OrDefault(e.AZURE_OPENAI_API_VERSION, DEFAULT_API_VERSION),
                 deploymentName |-> OrDefault(e.AZURE_OPENAI_DEPLOYMENT_NAME, DEFAULT_DEPLOYMENT_NAME),
                 apimEndpoint |-> e.AZURE_APIM_ENDPOINT,
                 apimSubscriptionKey |-> e.AZURE_APIM_SUBSCRIPTION_KEY])

\* Variant: defaults applied with ?? (only to undefined) instead of ||.
getAzureOpenAIConfig_Nullish(e) ==
    IF ~Truthy(e.AZURE_OPENAI_ENDPOINT) \/ ~Truthy(e.AZURE_OPENAI_API_KEY)
    THEN Throw(MSG_CONFIG_MISSING)
    ELSE Return([endpoint |-> e.AZURE_OPENAI_ENDPOINT.str,
                 apiKey |-> e.AZURE_OPENAI_API_KEY.str,
                 apiVersion |-> IF e.AZURE_OPENAI_API_VERSION.defined
                                THEN e.AZURE_OPENAI_API_VERSION.str
                                ELSE DEFAULT_API_VERSION,
                 deploymentName |-> IF e.AZURE_OPENAI_DEPLOYMENT_NAME.defined
                                    THEN e.AZURE_OPENAI_DEPLOYMENT_NAME.str
                                    ELSE DEFAULT_DEPLOYMENT_NAME,
                 apimEndpoint |-> e.AZURE_APIM_ENDPOINT,
                 apimSubscriptionKey |-> e.AZURE_APIM_SUBSCRIPTION_KEY])

\* Variant: a module-level cache; once a config has been built it is
\* returned again without reading the environment.
getAzureOpenAIConfig_Cached(e) ==
    IF result.op = "getAzureOpenAIConfig" /\ ~result.out.threw
    THEN result.out
    ELSE IF ~Truthy(e.AZURE_OPENAI_ENDPOINT) \/ ~Truthy(e.AZURE_OPENAI_API_KEY)
    THEN Throw(MSG_CONFIG_MISSING)
    ELSE Return([endpoint |-> e.AZURE_OPENAI_ENDPOINT.str,
                 apiKey |-> e.AZURE_OPENAI_API_KEY.str,
                 apiVersion |-> OrDefault(e.AZURE_OPENAI_API_VERSION, DEFAULT_API_VERSION),
                 deploymentName |-> OrDefault(e.AZURE_OPENAI_DEPLOYMENT_NAME, DEFAULT_DEPLOYMENT_NAME),
                 apimEndpoint |-> e.AZURE_APIM_ENDPOINT,
                 apimSubscriptionKey |-> e.AZURE_APIM_SUBSCRIPTION_KEY])

\* The AzureOpenAIConfig object built from the environment e, or the thrown
\* Error when AZURE_OPENAI_ENDPOINT or AZURE_OPENAI_API_KEY is falsy.
getAzureOpenAIConfig(e) ==
    LET endpoint == e.AZURE_OPENAI_ENDPOINT
        apiKey == e.AZURE_OPENAI_API_KEY
        apiVersion == OrDefault(e.AZURE_OPENAI_API_VERSION, DEFAULT_API_VERSION)
        deploymentName == OrDefault(e.AZURE_OPENAI_DEPLOYMENT_NAME, DEFAULT_DEPLOYMENT_NAME)
        apimEndpoint == e.AZURE_APIM_ENDPOINT
        apimSubscriptionKey == e.AZURE_APIM_SUBSCRIPTION_KEY
    IN  IF ~Truthy(endpoint) \/ ~Truthy(apiKey)
        THEN Throw(MSG_CONFIG_MISSING)
        ELSE Return([endpoint |-> endpoint.str,
                     apiKey |-> apiKey.str,
                     apiVersion |-> apiVersion,
                     deploymentName |-> deploymentName,
                     apimEndpoint |-> apimEndpoint,
                     apimSubscriptionKey |-> apimSubscriptionKey])

\* Index of the first '.' of s at or after index j; Len(s) + 1 when none.
FirstDotFrom(s, j) ==
    LET dots == {k \in j..Len(s) : s[k] = "."}
    IN  IF dots = {} THEN Len(s) + 1
        ELSE CHOOSE k \in dots : \A m \in dots : k <= m

\* The regular expression /https:\/\/([^.]+)\.openai\.azure\.com/ matches
\* with its first character at index i: 'https://', then a non-empty run
\* of characters other than '.', then '.openai.azure.com'.  The pattern is
\* not anchored: text may precede index i and follow the match.
MatchesAt(s, i) ==
    LET j == i + Len(HTTPS)
        d == FirstDotFrom(s, j)
    IN  /\ OccursAt(s, HTTPS, i)
        /\ d > j
        /\ OccursAt(s, DOT_OPENAI_AZURE_COM, d)

\* endpoint.match(...): capture group 1 of the leftmost match, or the
\* thrown Error when there is no match.
extractResourceName(endpoint) ==
    LET starts == {i \in 1..Len(endpoint) : MatchesAt(endpoint, i)}
    IN  IF starts = {}
        THEN Throw(MSG_INVALID_ENDPOINT)
        ELSE LET i == CHOOSE k \in starts : \A m \in starts : k <= m
                 j == i + Len(HTTPS)
             IN  Return(SubSeq(endpoint, j, FirstDotFrom(endpoint, j) - 1))

\* Variant: the gateway pair read from process.env and the gateway client
\* returned before the resolver is called.
createAzureOpenAIClient_GatewayBeforeResolve(e) ==
    IF Truthy(e.AZURE_APIM_ENDPOINT) /\ Truthy(e.AZURE_APIM_SUBSCRIPTION_KEY)
    THEN Return([baseURL |-> Str(StripTrailingSlash(e.AZURE_APIM_ENDPOINT.str)),
                 resourceName |-> Undefined,
                 apiKey |-> e.AZURE_OPENAI_API_KEY.str,
                 apiVersion |-> OrDefault(e.AZURE_OPENAI_API_VERSION, DEFAULT_API_VERSION),
                 useDeploymentBasedUrls |-> TRUE,
                 headers |-> {<<"Ocp-Apim-Subscription-Key",
                                e.AZURE_APIM_SUBSCRIPTION_KEY.str>>}])
    ELSE LET r == getAzureOpenAIConfig(e)
             name == extractResourceName(r.value.endpoint)
         IN  IF r.threw THEN r
             ELSE IF name.threw THEN name
             ELSE Return([baseURL |-> Undefined,
                          resourceName |-> Str(name.value),
                          apiKey |-> r.value.apiKey,
                          apiVersion |-> r.value.apiVersion,
                          useDeploymentBasedUrls |-> FALSE,
                          headers |-> {}])

\* Variant: gateway mode chosen when either gateway variable is truthy.
createAzureOpenAIClient_EitherGateway(e) ==
    LET r == getAzureOpenAIConfig(e)
        config == r.value
    IN  IF r.threw THEN r
        ELSE IF Truthy(config.apimEndpoint) \/ Truthy(config.apimSubscriptionKey)
        THEN Return([baseURL |-> Str(StripTrailingSlash(config.apimEndpoint.str)),
                     resourceName |-> Undefined,
                     apiKey |-> config.apiKey,
                     apiVersion |-> config.apiVersion,
                     useDeploymentBasedUrls |-> TRUE,
                     headers |-> {<<"Ocp-Apim-Subscription-Key",
                                    config.apimSubscriptionKey.str>>}])
        ELSE LET name == extractResourceName(config.endpoint)
             IN  IF name.threw THEN name
                 ELSE Return([baseURL |-> Undefined,
                              resourceName |-> Str(name.value),
                              apiKey |-> config.apiKey,
                              apiVersion |-> config.apiVersion,
                              useDeploymentBasedUrls |-> FALSE,
                              headers |-> {}])

\* The settings createAzure() is called with; the '@ai-sdk/azure' provider
\* it returns is identified with them.
createAzureOpenAIClient(e) ==
    LET r == getAzureOpenAIConfig(e)
        config == r.value
    IN  IF r.threw THEN r
        ELSE IF Truthy(config.apimEndpoint) /\ Truthy(config.apimSubscriptionKey)
        THEN Return([baseURL |-> Str(StripTrailingSlash(config.apimEndpoint.str)),
                     resourceName |-> Undefined,
                     apiKey |-> config.apiKey,
                     apiVersion |-> config.apiVersion,
                     useDeploymentBasedUrls |-> TRUE,
                     headers |-> {<<"Ocp-Apim-Subscription-Key",
                                    config.apimSubscriptionKey.str>>}])
        ELSE LET name == extractResourceName(config.endpoint)
             IN  IF name.threw THEN name
                 ELSE Return([baseURL |-> Undefined,
                              resourceName |-> Str(name.value),
                              apiKey |-> config.apiKey,
                              apiVersion |-> config.apiVersion,
                              useDeploymentBasedUrls |-> FALSE,
                              headers |-> {}])

\* Variant: a fixed model name whenever a gateway endpoint is configured.
getAzureOpenAIModel_FixedForGateway(e) ==
    LET r == getAzureOpenAIConfig(e)
    IN  IF r.threw THEN r
        ELSE IF Truthy(r.value.apimEndpoint) THEN Return(DEFAULT_DEPLOYMENT_NAME)
        ELSE Return(r.value.deploymentName)

getAzureOpenAIModel(e) ==
    LET r == getAzureOpenAIConfig(e)
    IN  IF r.threw THEN r ELSE Return(r.value.deploymentName)

\* Variant: the endpoint check joined with || instead of &&.
ValidateTryBlock_EndpointOr(e) ==
    LET r == getAzureOpenAIConfig(e)
        config == r.value
    IN  IF r.threw THEN r
        ELSE Return(
            (IF ~Includes(config.endpoint, OPENAI_AZURE_COM) \/ ~Truthy(config.apimEndpoint)
             THEN <<MSG_ENDPOINT_OR_APIM>> ELSE <<>>)
            \o
            (IF Truthy(config.apimEndpoint) /\ ~Truthy(config.apimSubscriptionKey)
             THEN <<MSG_SUBSCRIPTION_KEY>> ELSE <<>>)
            \o
            (IF config.deploymentName = <<>>
             THEN <<MSG_DEPLOYMENT_NAME>> ELSE <<>>))

\* Variant: the subscription-key check tests the gateway endpoint
\* for !== undefined instead of truthiness.
ValidateTryBlock_DefinedGateway(e) ==
    LET r == getAzureOpenAIConfig(e)
        config == r.value
    IN  IF r.threw THEN r
        ELSE Return(
            (IF ~Includes(config.endpoint, OPENAI_AZURE_COM) /\ ~Truthy(config.apimEndpoint)
             THEN <<MSG_ENDPOINT_OR_APIM>> ELSE <<>>)
            \o
            (IF config.apimEndpoint.defined /\ ~Truthy(config.apimSubscriptionKey)
             THEN <<MSG_SUBSCRIPTION_KEY>> ELSE <<>>)
            \o
            (IF config.deploymentName = <<>>
             THEN <<MSG_DEPLOYMENT_NAME>> ELSE <<>>))

\* Variant: the endpoint check without its gateway exemption.
ValidateTryBlock_EndpointOnly(e) ==
    LET r == getAzureOpenAIConfig(e)
        config == r.value
    IN  IF r.threw THEN r
        ELSE Return(
            (IF ~Includes(config.endpoint, OPENAI_AZURE_COM)
             THEN <<MSG_ENDPOINT_OR_APIM>> ELSE <<>>)
            \o
            (IF Truthy(config.apimEndpoint) /\ ~Truthy(config.apimSubscriptionKey)
             THEN <<MSG_SUBSCRIPTION_KEY>> ELSE <<>>)
            \o
            (IF config.deploymentName = <<>>
             THEN <<MSG_DEPLOYMENT_NAME>> ELSE <<>>))

\* Variant: the subscription-key check tests the key alone.
ValidateTryBlock_KeyOnly(e) ==
    LET r == getAzureOpenAIConfig(e)
        config == r.value
    IN  IF r.threw THEN r
        ELSE Return(
            (IF ~Includes(config.endpoint, OPENAI_AZURE_COM) /\ ~Truthy(config.apimEndpoint)
             THEN <<MSG_ENDPOINT_OR_APIM>> ELSE <<>>)
            \o
            (IF ~Truthy(config.apimEndpoint) /\ Truthy(config.apimSubscriptionKey)
             THEN <<MSG_SUBSCRIPTION_KEY>> ELSE <<>>)
            \o
            (IF config.deploymentName = <<>>
             THEN <<MSG_DEPLOYMENT_NAME>> ELSE <<>>))

\* The body of the try block of validateAzureOpenAIConfig: the errors
\* pushed, in order, or the Error thrown by getAzureOpenAIConfig.
ValidateTryBlock(e) ==
    LET r == getAzureOpenAIConfig(e)
        config == r.value
    IN  IF r.threw THEN r
        ELSE Return(
            (IF ~Includes(config.endpoint, OPENAI_AZURE_COM) /\ ~Truthy(config.apimEndpoint)
             THEN <<MSG_ENDPOINT_OR_APIM>> ELSE <<>>)
            \o
            (IF Truthy(config.apimEndpoint) /\ ~Truthy(config.apimSubscriptionKey)
             THEN <<MSG_SUBSCRIPTION_KEY>> ELSE <<>>)
            \o
            (IF config.deploymentName = <<>>
             THEN <<MSG_DEPLOYMENT_NAME>> ELSE <<>>))

\* Variant: the subscription-key check made on process.env before the
\* try block, so that it is reported whether or not resolution succeeds.
validateAzureOpenAIConfig_GatewayFirst(e) ==
    LET early == IF Truthy(e.AZURE_APIM_ENDPOINT) /\ ~Truthy(e.AZURE_APIM_SUBSCRIPTION_KEY)
                 THEN <<MSG_SUBSCRIPTION_KEY>> ELSE <<>>
        r == getAzureOpenAIConfig(e)
        errors == IF r.threw THEN early \o <<r.error>>
                  ELSE early \o
                       (IF ~Includes(r.value.endpoint, OPENAI_AZURE_COM) /\ ~Truthy(r.value.apimEndpoint)
                        THEN <<MSG_ENDPOINT_OR_APIM>> ELSE <<>>)
    IN  Return([isValid |-> (Len(errors) = 0), errors |-> errors])

\* Variant: isValid computed from the resolver's success instead of from
\* errors.length.
validateAzureOpenAIConfig_ValidIfResolved(e) ==
    LET body == ValidateTryBlock(e)
        errors == IF body.threw THEN <<body.error>> ELSE body.value
    IN  Return([isValid |-> ~body.threw, errors |-> errors])

\* Variant: no try/catch around the body.
validateAzureOpenAIConfig_NoCatch(e) ==
    LET body == ValidateTryBlock(e)
    IN  IF body.threw THEN body
        ELSE Return([isValid |-> (Len(body.value) = 0), errors |-> body.value])

\* try { ... } catch (error) { errors.push(error.message) }, then the
\* returned { isValid, errors }.
validateAzureOpenAIConfig(e) ==
    LET body == ValidateTryBlock(e)
        errors == IF body.threw THEN <<body.error>> ELSE body.value
    IN  Return([isValid |-> (Len(errors) = 0), errors |-> errors])

---------------------------------------------------------------------------
(* app/api/fireplexity/check-env/route.ts and check-azure-env/route.ts     *)

\* NextResponse.json(body, { status })
Json(status, body) == [status |-> status, body |-> body]

\* Variant: the search key tested for presence, not for truthiness.
CheckEnvGET_Defined(e) ==
    LET azureValidation == validateAzureOpenAIConfig(e)
    IN  IF azureValidation.threw THEN azureValidation
        ELSE Return(Json(200,
                 [hasFirecrawlKey |-> e.FIRECRAWL_API_KEY.defined,
                  hasAzureOpenAI |-> azureValidation.value.isValid,
                  azureOpenAIErrors |-> azureValidation.value.errors]))

\* GET /api/fireplexity/check-env
CheckEnvGET(e) ==
    LET azureValidation == validateAzureOpenAIConfig(e)
    IN  IF azureValidation.threw THEN azureValidation
        ELSE Return(Json(200,
                 [hasFirecrawlKey |-> Truthy(e.FIRECRAWL_API_KEY),
                  hasAzureOpenAI |-> azureValidation.value.isValid,
                  azureOpenAIErrors |-> azureValidation.value.errors]))

\* Variant: the handler calls the resolver instead of the validator.
CheckAzureEnvGET_Resolver(e) ==
    LET r == getAzureOpenAIConfig(e)
    IN  IF r.threw
        THEN Return(Json(500,
                 [error |-> MSG_FAILED_TO_VALIDATE,
                  details |-> <<r.error>>,
                  configured |-> FALSE]))
        ELSE Return(Json(200,
                 [message |-> MSG_VALID,
                  configured |-> TRUE]))

\* Variant: the { status: 500 } option left off the invalid response.
CheckAzureEnvGET_NoStatus(e) ==
    LET validation == validateAzureOpenAIConfig(e)
    IN  IF validation.threw
        THEN Return(Json(500,
                 [error |-> MSG_FAILED_TO_VALIDATE,
                  details |-> <<validation.error>>,
                  configured |-> FALSE]))
        ELSE IF ~validation.value.isValid
        THEN Return(Json(200,
                 [error |-> MSG_INVALID,
                  details |-> validation.value.errors,
                  configured |-> FALSE]))
        ELSE Return(Json(200,
                 [message |-> MSG_VALID,
                  configured |-> TRUE]))

\* GET /api/fireplexity/check-azure-env
CheckAzureEnvGET(e) ==
    LET validation == validateAzureOpenAIConfig(e)
    IN  IF validation.threw
        THEN Return(Json(500,
                 [error |-> MSG_FAILED_TO_VALIDATE,
                  details |-> <<validation.error>>,
                  configured |-> FALSE]))
        ELSE IF ~validation.value.isValid
        THEN Return(Json(500,
                 [error |-> MSG_INVALID,
                  details |-> validation.value.errors,
                  configured |-> FALSE]))
        ELSE Return(Json(200,
                 [message |-> MSG_VALID,
                  configured |-> TRUE]))

---------------------------------------------------------------------------
(* Environments                                                            *)

EP_Direct == HTTPS \o <<"f","o","o">> \o DOT_OPENAI_AZURE_COM \o <<"/">>

EP_Http == <<"h","t","t","p",":","/","/","f","o","o">> \o DOT_OPENAI_AZURE_COM \o <<"/">>

EP_Other == HTTPS \o <<"l","l","m",".","e","x","a","m","p","l","e",".","n","e","t","/">>

GW_NoSlash == HTTPS \o <<"g","w",".","a","z","u","r","e","-","a","p","i",".","n","e","t">>

GW_Slash == GW_NoSlash \o <<"/">>

V_Key == <<"k","1">>

V_Version == <<"2","0","2","3","-","1","2","-","0","1","-","p","r","e","v","i","e","w">>

V_Deployment == <<"m","y","-","d","e","p","l","o","y">>

V_SubKey == <<"s","k">>

V_Firecrawl == <<"f","c","-","1">>

\* undefined (variable not set), '' and the given non-empty strings
Values(strs) == {Undefined, Str(<<>>)} \cup {Str(x) : x \in strs}

EnvDomain ==
    [AZURE_OPENAI_ENDPOINT |-> Values({EP_Direct, EP_Http, EP_Other}),
     AZURE_OPENAI_API_KEY |-> Values({V_Key}),
     AZURE_OPENAI_API_VERSION |-> Values({V_Version}),
     AZURE_OPENAI_DEPLOYMENT_NAME |-> Values({V_Deployment}),
     AZURE_APIM_ENDPOINT |-> Values({GW_Slash, GW_NoSlash}),
     AZURE_APIM_SUBSCRIPTION_KEY |-> Values({V_SubKey}),
     FIRECRAWL_API_KEY |-> Values({V_Firecrawl})]

EnvNames == DOMAIN EnvDomain

Environments ==
    [AZURE_OPENAI_ENDPOINT : EnvDomain.AZURE_OPENAI_ENDPOINT,
     AZURE_OPENAI_API_KEY : EnvDomain.AZURE_OPENAI_API_KEY,
     AZURE_OPENAI_API_VERSION : EnvDomain.AZURE_OPENAI_API_VERSION,
     AZURE_OPENAI_DEPLOYMENT_NAME : EnvDomain.AZURE_OPENAI_DEPLOYMENT_NAME,
     AZURE_APIM_ENDPOINT : EnvDomain.AZURE_APIM_ENDPOINT,
     AZURE_APIM_SUBSCRIPTION_KEY : EnvDomain.AZURE_APIM_SUBSCRIPTION_KEY,
     FIRECRAWL_API_KEY : EnvDomain.FIRECRAWL_API_KEY]

-------------------------------------------------------------------------------------------------------------------------------------------------
(* State machine                                                           *)
(*                                                                         *)
(* env    process.env                                                      *)
(* result the last call: its name, its outcome, and the number of changes  *)
(*        of process.env since it returned (age; 0 = none).  A config      *)
(*        object returned by getAzureOpenAIConfig stays on record across   *)
(*        up to MaxStale changes of the environment (a caller may still    *)
(*        hold it); every other outcome is consumed when it is returned    *)
(*        and is dropped by the next change.                               *)
(* prev   the getAzureOpenAIConfig call right before the last call, when   *)
(*        the last call is getAzureOpenAIConfig too and process.env did    *)
(*        not change between the two; NoCall otherwise                     *)
(* extracted   the outcome of extractResourceName(config.endpoint) in the *)
(*        direct branch of createAzureOpenAIClient, once it has run        *)

MaxStale == 1

NoOutcome == [threw |-> FALSE, error |-> "", value |-> <<>>]

NoCall == [op |-> "none", age |-> 0, out |-> NoOutcome]

Init ==
    /\ env \in Environments
    /\ result = NoCall
    /\ prev = NoCall
    /\ extracted = NoOutcome

\* process.env[name] = v, or delete process.env[name]; done by the host
\* (deployment, .env.local), never by the code modelled here.
SetEnv ==
    \E n \in EnvNames : \E v \in EnvDomain[n] :
        /\ v # env[n]
        /\ env' = [env EXCEPT ![n] = v]
        /\ result' = IF result.op = "getAzureOpenAIConfig" /\ result.age < MaxStale
                     THEN [result EXCEPT !.age = @ + 1]
                     ELSE NoCall
        /\ prev' = NoCall
        /\ UNCHANGED extracted

\* A call of an exported function or route handler: it reads process.env
\* and leaves it as it is.
Call(op, out) ==
    /\ result' = [op |-> op, age |-> 0, out |-> out]
    /\ prev' = IF /\ op = "getAzureOpenAIConfig"
                  /\ result.op = "getAzureOpenAIConfig"
                  /\ result.age = 0
               THEN result ELSE NoCall
    /\ UNCHANGED <<env, extracted>>

Resolve == Call("getAzureOpenAIConfig", getAzureOpenAIConfig(env))

CreateClient == Call("createAzureOpenAIClient", createAzureOpenAIClient(env))

GetModel == Call("getAzureOpenAIModel", getAzureOpenAIModel(env))

Validate == Call("validateAzureOpenAIConfig", validateAzureOpenAIConfig(env))

CheckEnv == Call("check-env", CheckEnvGET(env))

CheckAzureEnv == Call("check-azure-env", CheckAzureEnvGET(env))

Next ==
    \/ SetEnv
    \/ Resolve
    \/ CreateClient
    \/ GetModel
    \/ Validate
    \/ CheckEnv
    \/ CheckAzureEnv

Spec == Init /\ [][Next]_vars

---------------------------------------------------------------------------
(* extractResourceName on its own: direct-mode environments whose          *)
(* AZURE_OPENAI_ENDPOINT is any concatenation of up to MaxPieces pieces    *)

MaxPieces == 4

Pieces ==
    {HTTPS,
     <<"h","t","t","p",":","/","/">>,
     <<"f","o","o">>,
     <<"x">>,
     <<".">>,
     DOT_OPENAI_AZURE_COM,
     <<"/">>}

RECURSIVE Flatten(_)
Flatten(q) == IF q = <<>> THEN <<>> ELSE Head(q) \o Flatten(Tail(q))

EndpointInputs ==
    UNION {{Flatten(q) : q \in [1..n -> Pieces]} : n \in 1..MaxPieces}

DirectEnv(endpoint) ==
    [AZURE_OPENAI_ENDPOINT |-> Str(endpoint),
     AZURE_OPENAI_API_KEY |-> Str(V_Key),
     AZURE_OPENAI_API_VERSION |-> Undefined,
     AZURE_OPENAI_DEPLOYMENT_NAME |-> Undefined,
     AZURE_APIM_ENDPOINT |-> Undefined,
     AZURE_APIM_SUBSCRIPTION_KEY |-> Undefined,
     FIRECRAWL_API_KEY |-> Undefined]

InitExtract ==
    /\ env \in {DirectEnv(x) : x \in EndpointInputs}
    /\ result = NoCall
    /\ prev = NoCall
    /\ extracted = NoOutcome

\* createAzureOpenAIClient up to and including the call of
\* extractResourceName in its else branch.
ExtractInDirectMode ==
    LET r == getAzureOpenAIConfig(env)
    IN  /\ extracted = NoOutcome
        /\ ~r.threw
        /\ ~(Truthy(r.value.apimEndpoint) /\ Truthy(r.value.apimSubscriptionKey))
        /\ extracted' = extractResourceName(r.value.endpoint)
        /\ UNCHANGED <<env, result, prev>>

NextExtract == ExtractInDirectMode

SpecExtract == InitExtract /\ [][NextExtract]_vars

---------------------------------------------------------------------------
(* Properties                                                              *)

\* x is an element of the sequence q
InSeq(x, q) == \E i \in 1..Len(q) : q[i] = x

\* The last call was op and process.env is as it was when op returned.
Just(op) == result.op = op /\ result.age = 0

\* AZURE_OPENAI_ENDPOINT or AZURE_OPENAI_API_KEY is unset or empty
RequiredMissing ==
    \/ ~env.AZURE_OPENAI_ENDPOINT.defined
    \/ env.AZURE_OPENAI_ENDPOINT.str = <<>>
    \/ ~env.AZURE_OPENAI_API_KEY.defined
    \/ env.AZURE_OPENAI_API_KEY.str = <<>>

\* C1: getAzureOpenAIConfig throws the fixed 'Azure OpenAI configuration
\* missing...' error exactly when AZURE_OPENAI_ENDPOINT or
\* AZURE_OPENAI_API_KEY is unset or empty; otherwise it returns a config
\* whose endpoint and apiKey are the non-empty values of the two variables.
C1_ResolveFailsIffRequiredMissing ==
    Just("getAzureOpenAIConfig") =>
        /\ result.out.threw <=> RequiredMissing
        /\ result.out.threw => result.out.error = MSG_CONFIG_MISSING
        /\ ~result.out.threw =>
              /\ result.out.value.endpoint = env.AZURE_OPENAI_ENDPOINT.str
              /\ result.out.value.endpoint # <<>>
              /\ result.out.value.apiKey = env.AZURE_OPENAI_API_KEY.str
              /\ result.out.value.apiKey # <<>>

\* C1 witness: the endpoint is set, the key is the empty string, and the
\* resolver has thrown.
C1_Witness ==
    /\ Just("getAzureOpenAIConfig")
    /\ result.out.threw
    /\ Truthy(env.AZURE_OPENAI_ENDPOINT)
    /\ env.AZURE_OPENAI_API_KEY = Str(<<>>)

\* C2: validateAzureOpenAIConfig never throws; when resolution fails it
\* returns isValid = false with the resolver's message among the errors.
C2_ValidateNeverThrows ==
    Just("validateAzureOpenAIConfig") =>
        /\ ~result.out.threw
        /\ RequiredMissing =>
              /\ result.out.value.isValid = FALSE
              /\ InSeq(MSG_CONFIG_MISSING, result.out.value.errors)

\* C2 witness: the validator has returned for an environment in which the
\* resolver throws.
C2_Witness ==
    /\ Just("validateAzureOpenAIConfig")
    /\ RequiredMissing
    /\ getAzureOpenAIConfig(env).threw
    /\ ~result.out.threw
    /\ ~result.out.value.isValid

\* Exactly one of the gateway pair is set (to a non-empty value).
PartialGateway ==
    Truthy(env.AZURE_APIM_ENDPOINT) # Truthy(env.AZURE_APIM_SUBSCRIPTION_KEY)

\* C3 as stated: whenever exactly one of AZURE_APIM_ENDPOINT /
\* AZURE_APIM_SUBSCRIPTION_KEY is set, the validator returns isValid = false
\* with the subscription-key error.
C3_PartialGatewayAlwaysReported ==
    (Just("validateAzureOpenAIConfig") /\ PartialGateway) =>
        /\ ~result.out.threw
        /\ result.out.value.isValid = FALSE
        /\ InSeq(MSG_SUBSCRIPTION_KEY, result.out.value.errors)

\* C3 amended: when resolution succeeds and AZURE_APIM_ENDPOINT is set
\* without AZURE_APIM_SUBSCRIPTION_KEY, the validator returns
\* isValid = false with the subscription-key error; in every other
\* environment (the key without the endpoint, or a failed resolution) the
\* subscription-key error is not reported.
C3_EndpointWithoutKeyReported ==
    Just("validateAzureOpenAIConfig") =>
        /\ ~result.out.threw
        /\ IF /\ ~RequiredMissing
              /\ Truthy(env.AZURE_APIM_ENDPOINT)
              /\ ~Truthy(env.AZURE_APIM_SUBSCRIPTION_KEY)
           THEN /\ result.out.value.isValid = FALSE
                /\ InSeq(MSG_SUBSCRIPTION_KEY, result.out.value.errors)
           ELSE ~InSeq(MSG_SUBSCRIPTION_KEY, result.out.value.errors)

\* C3 witness: resolution succeeds, the gateway endpoint is set, the
\* subscription key is not, and the validator has reported it.
C3_Witness ==
    /\ Just("validateAzureOpenAIConfig")
    /\ ~RequiredMissing
    /\ Truthy(env.AZURE_APIM_ENDPOINT)
    /\ ~env.AZURE_APIM_SUBSCRIPTION_KEY.defined
    /\ InSeq(MSG_SUBSCRIPTION_KEY, result.out.value.errors)

\* C4: check-azure-env answers 200 with configured = true exactly when the
\* validator reports isValid = true, and otherwise 500 with
\* configured = false and details equal to the validator's errors; it never
\* throws.
C4_CheckAzureEnvMirrorsValidator ==
    Just("check-azure-env") =>
        LET v == validateAzureOpenAIConfig(env).value
            response == result.out.value
        IN  /\ ~result.out.threw
            /\ IF v.isValid
               THEN /\ response.status = 200
                    /\ response.body = [message |-> MSG_VALID, configured |-> TRUE]
               ELSE /\ response.status = 500
                    /\ response.body.configured = FALSE
                    /\ response.body.details = v.errors
                    /\ response.body.error = MSG_INVALID

\* C4 witness: check-azure-env has answered 500 and its details carry the
\* subscription-key error.
C4_Witness ==
    /\ Just("check-azure-env")
    /\ ~result.out.threw
    /\ result.out.value.status = 500
    /\ result.out.value.body.details = <<MSG_SUBSCRIPTION_KEY>>

\* C5: check-env answers 200 in every environment, with hasFirecrawlKey
\* true iff FIRECRAWL_API_KEY is set and non-empty, hasAzureOpenAI equal to
\* the validator's isValid and azureOpenAIErrors equal to its errors.
C5_CheckEnvAlways200 ==
    Just("check-env") =>
        LET v == validateAzureOpenAIConfig(env).value
            response == result.out.value
        IN  /\ ~result.out.threw
            /\ response.status = 200
            /\ response.body.hasFirecrawlKey <=>
                  (env.FIRECRAWL_API_KEY.defined /\ env.FIRECRAWL_API_KEY.str # <<>>)
            /\ response.body.hasAzureOpenAI = v.isValid
            /\ response.body.azureOpenAIErrors = v.errors

\* C5 witness: check-env has answered for an invalid configuration with
\* FIRECRAWL_API_KEY set to the empty string.
C5_Witness ==
    /\ Just("check-env")
    /\ ~result.out.threw
    /\ result.out.value.status = 200
    /\ ~result.out.value.body.hasAzureOpenAI
    /\ result.out.value.body.azureOpenAIErrors # <<>>
    /\ env.FIRECRAWL_API_KEY = Str(<<>>)

\* base is url with one trailing '/' removed, or url itself when url does
\* not end in '/'
IsStrippedOf(base, url) ==
    \/ url = base \o <<"/">>
    \/ url = base /\ (Len(url) = 0 \/ url[Len(url)] # "/")

\* Both gateway variables are set to non-empty values.
GatewayPair ==
    /\ env.AZURE_APIM_ENDPOINT.defined
    /\ env.AZURE_APIM_ENDPOINT.str # <<>>
    /\ env.AZURE_APIM_SUBSCRIPTION_KEY.defined
    /\ env.AZURE_APIM_SUBSCRIPTION_KEY.str # <<>>

\* The client was built by the gateway branch / by the direct branch.
IsGatewayClient(c) == c.baseURL.defined /\ ~c.resourceName.defined

IsDirectClient(c) == ~c.baseURL.defined /\ c.resourceName.defined

C9_DefaultsNeverEmpty ==
    (Just("getAzureOpenAIConfig") /\ ~result.out.threw) =>
        LET config == result.out.value
            version == env.AZURE_OPENAI_API_VERSION
            deployment == env.AZURE_OPENAI_DEPLOYMENT_NAME
        IN  /\ config.apiVersion # <<>>
            /\ config.deploymentName # <<>>
            /\ config.apiVersion =
                  IF version.defined /\ version.str # <<>> THEN version.str
                  ELSE <<"2","0","2","4","-","0","2","-","1","5","-","p","r","e","v","i","e","w">>
            /\ config.deploymentName =
                  IF deployment.defined /\ deployment.str # <<>> THEN deployment.str
                  ELSE <<"g","p","t","-","4","o">>

\* C9 witness: a config has been returned with AZURE_OPENAI_API_VERSION
\* set to the empty string and AZURE_OPENAI_DEPLOYMENT_NAME unset.
C9_Witness ==
    /\ Just("getAzureOpenAIConfig")
    /\ ~result.out.threw
    /\ env.AZURE_OPENAI_API_VERSION = Str(<<>>)
    /\ env.AZURE_OPENAI_DEPLOYMENT_NAME = Undefined

\* Two getAzureOpenAIConfig calls with no environment change between them
\* have the same outcome, field for field.
C10_Idempotent ==
    (Just("getAzureOpenAIConfig") /\ prev.op = "getAzureOpenAIConfig") =>
        result.out = prev.out

\* The outcome of a getAzureOpenAIConfig call is determined by the
\* environment at the time of the call: each field is the value, or the
\* default, of its variable as it is now.
C10_ReflectsEnvironment ==
    Just("getAzureOpenAIConfig") =>
        /\ result.out.threw <=> RequiredMissing
        /\ ~result.out.threw =>
              LET config == result.out.value
              IN  /\ config.endpoint = env.AZURE_OPENAI_ENDPOINT.str
                  /\ config.apiKey = env.AZURE_OPENAI_API_KEY.str
                  /\ \/ config.apiVersion = env.AZURE_OPENAI_API_VERSION.str
                     \/ /\ ~Truthy(env.AZURE_OPENAI_API_VERSION)
                        /\ config.apiVersion = DEFAULT_API_VERSION
                  /\ \/ config.deploymentName = env.AZURE_OPENAI_DEPLOYMENT_NAME.str
                     \/ /\ ~Truthy(env.AZURE_OPENAI_DEPLOYMENT_NAME)
                        /\ config.deploymentName = DEFAULT_DEPLOYMENT_NAME
                  /\ config.apimEndpoint = env.AZURE_APIM_ENDPOINT
                  /\ config.apimSubscriptionKey = env.AZURE_APIM_SUBSCRIPTION_KEY

\* A step that completes a call (of the resolver, the validator, the client
\* factory or any other operation) leaves process.env as it was.
C10_CallsLeaveEnvironment ==
    (result'.op # "none" /\ result'.age = 0) => env' = env

\* C10: getAzureOpenAIConfig is a stateless function of the current
\* environment: two calls with an unchanged environment return identical
\* configs, each result reflects only the environment at the time of the
\* call (also after the environment has changed since an earlier call),
\* and no call modifies the environment.
C10_Stateless ==
    /\ [](C10_Idempotent /\ C10_ReflectsEnvironment)
    /\ [][C10_CallsLeaveEnvironment]_vars

\* C10 witness: getAzureOpenAIConfig has returned twice in a row in an
\* unchanged environment with a complete gateway pair, both times with a
\* config.
C10_Witness ==
    /\ Just("getAzureOpenAIConfig")
    /\ prev.op = "getAzureOpenAIConfig"
    /\ ~prev.out.threw
    /\ ~result.out.threw
    /\ GatewayPair

---------------------------------------------------------------------------
(* Properties of extractResourceName, under SpecExtract                    *)

StartsWith(s, p) == OccursAt(s, p, 1)

EndsWith(s, p) == OccursAt(s, p, Len(s) - Len(p) + 1)

\* s is https://{name}.openai.azure.com/ for a non-empty name without '.'
HasDirectShape(s) ==
    LET name == SubSeq(s, Len(HTTPS) + 1, Len(s) - Len(DOT_OPENAI_AZURE_COM) - 1)
    IN  /\ StartsWith(s, HTTPS)
        /\ EndsWith(s, DOT_OPENAI_AZURE_COM \o <<"/">>)
        /\ name # <<>>
        /\ ~InSeq(".", name)

\* s has no https:// scheme at its start, or its domain suffix is not
\* openai.azure.com (with or without a final '/')
IsMalformed(s) ==
    \/ ~StartsWith(s, HTTPS)
    \/ /\ ~EndsWith(s, DOT_OPENAI_AZURE_COM)
       /\ ~EndsWith(s, DOT_OPENAI_AZURE_COM \o <<"/">>)

\* C8: in direct mode, resource-name extraction returns exactly {name} for
\* every endpoint https://{name}.openai.azure.com/, and throws 'Invalid
\* Azure OpenAI endpoint format' for every endpoint without the https://
\* scheme at its start or with a domain suffix other than openai.azure.com.
C8_ExtractsNameOrRejects ==
    extracted # NoOutcome =>
        LET s == env.AZURE_OPENAI_ENDPOINT.str
        IN  /\ HasDirectShape(s) =>
                  /\ ~extracted.threw
                  /\ s = HTTPS \o extracted.value \o DOT_OPENAI_AZURE_COM \o <<"/">>
            /\ IsMalformed(s) =>
                  /\ extracted.threw
                  /\ extracted.error = MSG_INVALID_ENDPOINT

---------------------------------------------------------------------------
(* Properties of the validator, the client factory and the routes          *)

\* A non-empty API key, an endpoint https://{name}.openai.azure.com/ and
\* neither gateway variable set.
PlainDirectSetup ==
    /\ env.AZURE_OPENAI_API_KEY.defined
    /\ env.AZURE_OPENAI_API_KEY.str # <<>>
    /\ env.AZURE_OPENAI_ENDPOINT.defined
    /\ HasDirectShape(env.AZURE_OPENAI_ENDPOINT.str)
    /\ ~env.AZURE_APIM_ENDPOINT.defined
    /\ ~env.AZURE_APIM_SUBSCRIPTION_KEY.defined

\* C11: with a non-empty API key, an endpoint of the form
\* https://{name}.openai.azure.com/ and no gateway variables set, the
\* validator returns {isValid: true, errors: []} and check-azure-env
\* answers 200 with configured = true.
C11_PlainDirectSetupIsValid ==
    PlainDirectSetup =>
        /\ Just("validateAzureOpenAIConfig") =>
              /\ ~result.out.threw
              /\ result.out.value = [isValid |-> TRUE, errors |-> <<>>]
        /\ Just("check-azure-env") =>
              /\ ~result.out.threw
              /\ result.out.value.status = 200
              /\ result.out.value.body.configured = TRUE

\* C11 witness: check-azure-env has answered in such an environment, with
\* the version and deployment name left to their defaults.
C11_Witness ==
    /\ PlainDirectSetup
    /\ Just("check-azure-env")
    /\ ~env.AZURE_OPENAI_API_VERSION.defined
    /\ ~env.AZURE_OPENAI_DEPLOYMENT_NAME.defined
    /\ result.out.value.status = 200

\* The three conditions the validator tests once resolution has succeeded.
EndpointCheckFails ==
    /\ ~Includes(env.AZURE_OPENAI_ENDPOINT.str, OPENAI_AZURE_COM)
    /\ ~Truthy(env.AZURE_APIM_ENDPOINT)

SubscriptionKeyCheckFails ==
    /\ Truthy(env.AZURE_APIM_ENDPOINT)
    /\ ~Truthy(env.AZURE_APIM_SUBSCRIPTION_KEY)

DeploymentNameCheckFails ==
    OrDefault(env.AZURE_OPENAI_DEPLOYMENT_NAME, DEFAULT_DEPLOYMENT_NAME) = <<>>

\* q lists x at an index below one at which it lists y
ListedBefore(x, y, q) ==
    \E i \in 1..Len(q) : \E j \in 1..Len(q) : i < j /\ q[i] = x /\ q[j] = y

\* C12: when resolution succeeds the three checks accumulate: the errors
\* list holds the message of each check exactly when its condition holds
\* (endpoint lacks 'openai.azure.com' and no gateway endpoint; gateway
\* endpoint without subscription key; deployment name empty), in the order
\* endpoint-or-gateway, subscription-key, deployment-name, and nothing else.
C12_ChecksAccumulateInOrder ==
    (Just("validateAzureOpenAIConfig") /\ ~RequiredMissing) =>
        LET errors == result.out.value.errors
        IN  /\ ~result.out.threw
            /\ InSeq(MSG_ENDPOINT_OR_APIM, errors) <=> EndpointCheckFails
            /\ InSeq(MSG_SUBSCRIPTION_KEY, errors) <=> SubscriptionKeyCheckFails
            /\ InSeq(MSG_DEPLOYMENT_NAME, errors) <=> DeploymentNameCheckFails
            /\ \A i \in 1..Len(errors) :
                  errors[i] \in {MSG_ENDPOINT_OR_APIM, MSG_SUBSCRIPTION_KEY, MSG_DEPLOYMENT_NAME}
            /\ \A i \in 1..Len(errors) : \A j \in 1..Len(errors) :
                  i # j => errors[i] # errors[j]
            /\ ~ListedBefore(MSG_SUBSCRIPTION_KEY, MSG_ENDPOINT_OR_APIM, errors)
            /\ ~ListedBefore(MSG_DEPLOYMENT_NAME, MSG_ENDPOINT_OR_APIM, errors)
            /\ ~ListedBefore(MSG_DEPLOYMENT_NAME, MSG_SUBSCRIPTION_KEY, errors)

\* C12 witness: resolution succeeds, the endpoint lacks the marker, no
\* gateway endpoint is set, and the validator has listed that error.
C12_Witness ==
    /\ Just("validateAzureOpenAIConfig")
    /\ ~RequiredMissing
    /\ EndpointCheckFails
    /\ result.out.value.errors = <<MSG_ENDPOINT_OR_APIM>>

\* C13: when the direct endpoint or API key is missing and the gateway
\* endpoint is set without a subscription key, the validator returns
\* isValid = false; its errors hold the configuration-missing message and
\* do not hold the subscription-key message.
C13_ResolverFailureHidesGatewayError ==
    (Just("validateAzureOpenAIConfig") /\ RequiredMissing /\ SubscriptionKeyCheckFails) =>
        /\ ~result.out.threw
        /\ result.out.value.isValid = FALSE
        /\ InSeq(MSG_CONFIG_MISSING, result.out.value.errors)
        /\ ~InSeq(MSG_SUBSCRIPTION_KEY, result.out.value.errors)

\* C13 witness: only AZURE_APIM_ENDPOINT of the six configuration variables
\* is set, and the validator has returned.
C13_Witness ==
    /\ Just("validateAzureOpenAIConfig")
    /\ Truthy(env.AZURE_APIM_ENDPOINT)
    /\ ~env.AZURE_APIM_SUBSCRIPTION_KEY.defined
    /\ ~env.AZURE_OPENAI_ENDPOINT.defined
    /\ ~env.AZURE_OPENAI_API_KEY.defined
    /\ ~env.AZURE_OPENAI_API_VERSION.defined
    /\ ~env.AZURE_OPENAI_DEPLOYMENT_NAME.defined
    /\ ~result.out.value.isValid

\* C14: in every environment where getAzureOpenAIConfig fails,
\* createAzureOpenAIClient and getAzureOpenAIModel fail with the same
\* configuration-missing error and produce no client and no model
\* identifier, also when a complete gateway pair is configured.
C14_ResolverFailurePropagates ==
    ((Just("createAzureOpenAIClient") \/ Just("getAzureOpenAIModel")) /\ RequiredMissing) =>
        /\ result.out.threw
        /\ result.out.error = MSG_CONFIG_MISSING
        /\ result.out.value = <<>>

\* C14 witness: the client factory has thrown with a complete gateway pair
\* and an endpoint configured, the API key being the one thing missing.
C14_Witness ==
    /\ Just("createAzureOpenAIClient")
    /\ GatewayPair
    /\ Truthy(env.AZURE_OPENAI_ENDPOINT)
    /\ ~env.AZURE_OPENAI_API_KEY.defined
    /\ result.out.threw

\* C15: the validator returns isValid = true if and only if its errors
\* list is empty.
C15_ValidIffNoErrors ==
    Just("validateAzureOpenAIConfig") =>
        /\ ~result.out.threw
        /\ result.out.value.isValid <=> (result.out.value.errors = <<>>)

\* C15 witness: the validator has returned isValid = false together with
\* an error from one of its own checks (resolution having succeeded).
C15_Witness ==
    /\ Just("validateAzureOpenAIConfig")
    /\ ~RequiredMissing
    /\ ~result.out.value.isValid
    /\ result.out.value.errors = <<MSG_SUBSCRIPTION_KEY>>

\* C16: validation agrees with client construction: in every environment
\* in which the validator returns isValid = true, createAzureOpenAIClient
\* returns a client, whichever mode it selects.
C16_ValidImpliesClientBuilt ==
    (Just("createAzureOpenAIClient") /\ validateAzureOpenAIConfig(env).value.isValid) =>
        ~result.out.threw

\* C17: the errors list returned by the validator has at most one element:
\* the endpoint-or-gateway error and the subscription-key error exclude
\* each other, the deployment-name error never occurs, and a resolver
\* failure yields its own message alone.
C17_AtMostOneError ==
    Just("validateAzureOpenAIConfig") =>
        LET errors == result.out.value.errors
        IN  /\ ~result.out.threw
            /\ Len(errors) <= 1
            /\ ~(InSeq(MSG_ENDPOINT_OR_APIM, errors) /\ InSeq(MSG_SUBSCRIPTION_KEY, errors))
            /\ ~InSeq(MSG_DEPLOYMENT_NAME, errors)
            /\ RequiredMissing => errors = <<MSG_CONFIG_MISSING>>

\* C17 witness: the endpoint lacks the 'openai.azure.com' marker, the
\* deployment name is the empty string, the gateway endpoint is set
\* without a key, and the validator has returned exactly one error.
C17_Witness ==
    /\ Just("validateAzureOpenAIConfig")
    /\ ~RequiredMissing
    /\ ~Includes(env.AZURE_OPENAI_ENDPOINT.str, OPENAI_AZURE_COM)
    /\ env.AZURE_OPENAI_DEPLOYMENT_NAME = Str(<<>>)
    /\ SubscriptionKeyCheckFails
    /\ Len(result.out.value.errors) = 1

\* C18: the two status routes agree on the same environment: check-env
\* reports hasAzureOpenAI = true exactly when check-azure-env answers 200,
\* check-env's azureOpenAIErrors equals check-azure-env's details when that
\* answers 500, and the 'Failed to validate Azure OpenAI configuration'
\* response is never produced.
C18_RoutesAgree ==
    /\ Just("check-env") =>
          LET a == result.out.value
              b == CheckAzureEnvGET(env)
          IN  /\ ~result.out.threw
              /\ ~b.threw
              /\ a.body.hasAzureOpenAI <=> (b.value.status = 200)
              /\ b.value.status # 200 =>
                    /\ b.value.status = 500
                    /\ a.body.azureOpenAIErrors = b.value.body.details
    /\ Just("check-azure-env") =>
          LET a == CheckEnvGET(env)
              b == result.out.value
          IN  /\ ~result.out.threw
              /\ ~a.threw
              /\ a.value.body.hasAzureOpenAI <=> (b.status = 200)
              /\ b.status # 200 =>
                    /\ b.status = 500
                    /\ b.body.error # MSG_FAILED_TO_VALIDATE
                    /\ a.value.body.azureOpenAIErrors = b.body.details

\* C18 witness: check-azure-env has answered 500 because the resolver
\* failed, with the resolver's message as its details.
C18_Witness ==
    /\ Just("check-azure-env")
    /\ RequiredMissing
    /\ result.out.value.status = 500
    /\ result.out.value.body.error = MSG_INVALID
    /\ result.out.value.body.details = <<MSG_CONFIG_MISSING>>

====
